---- MODULE Spec2Model ----
(***************************************************************************)
(* State-machine model of scripts/jmh_consolidation.py (PhotoConsolidator).*)
(*                                                                         *)
(* File names are sequences of one-character strings, so that the name     *)
(* arithmetic of the program (prefixing, stem/suffix splitting, numeric    *)
(* suffixes, case folding) is computed and not assumed.  A directory tree  *)
(* is a function from paths (sequences of names) to nodes; a node is DIR   *)
(* or the byte content of a regular file.                                  *)
(***************************************************************************)
EXTENDS Integers, Sequences, FiniteSets, TLC

(***************************************************************************)
(* Bounds of the model.                                                    *)
(***************************************************************************)
MaxSrcFiles == 3
MaxStaged == 3
MaxOrganized == 3
MaxLibrary == 3
MaxPasses == 2

(***************************************************************************)
(* Characters and names.                                                   *)
(***************************************************************************)
UpperChars == <<"A","B","C","D","E","F","G","H","I","J","K","L","M",
                "N","O","P","Q","R","S","T","U","V","W","X","Y","Z">>
LowerChars == <<"a","b","c","d","e","f","g","h","i","j","k","l","m",
                "n","o","p","q","r","s","t","u","v","w","x","y","z">>
DigitChars == <<"0","1","2","3","4","5","6","7","8","9">>

\* str.lower() on one character
LowerChar(c) ==
    IF \E i \in DOMAIN UpperChars : UpperChars[i] = c
    THEN LowerChars[CHOOSE i \in DOMAIN UpperChars : UpperChars[i] = c]
    ELSE c

\* str.lower()
Lower(s) == [i \in DOMAIN s |-> LowerChar(s[i])]

\* str.isdigit(): non-empty and every character a decimal digit
IsDigit(s) ==
    /\ Len(s) > 0
    /\ \A i \in DOMAIN s : \E d \in DOMAIN DigitChars : DigitChars[d] = s[i]

\* str(counter) for a natural number
RECURSIVE DecStr(_)
DecStr(n) ==
    IF n < 10 THEN <<DigitChars[n + 1]>>
    ELSE DecStr(n \div 10) \o <<DigitChars[(n % 10) + 1]>>

\* name.rfind('.') as a 1-based position, 0 when there is no dot
RFindDot(name) ==
    IF \E i \in DOMAIN name : name[i] = "."
    THEN CHOOSE i \in DOMAIN name :
            /\ name[i] = "."
            /\ \A j \in DOMAIN name : name[j] = "." => j <= i
    ELSE 0

\* pathlib: a suffix needs a dot that is neither the first nor the last character
HasSuffix(name) == 1 < RFindDot(name) /\ RFindDot(name) < Len(name)

\* PurePath.suffix
Suffix(name) ==
    IF HasSuffix(name) THEN SubSeq(name, RFindDot(name), Len(name)) ELSE <<>>

\* PurePath.stem
Stem(name) ==
    IF HasSuffix(name) THEN SubSeq(name, 1, RFindDot(name) - 1) ELSE name

(***************************************************************************)
(* Program constants: extension sets and the configured sources.           *)
(***************************************************************************)
raw_extensions ==
    { <<".","c","r","2">>, <<".","r","a","w">>, <<".","d","n","g">>,
      <<".","n","e","f">>, <<".","a","r","w">>, <<".","o","r","f">>,
      <<".","r","w","2">> }

photo_extensions ==
    raw_extensions \cup
    { <<".","j","p","g">>, <<".","j","p","e","g">>, <<".","t","i","f">>,
      <<".","t","i","f","f">>, <<".","p","n","g">>, <<".","b","m","p">> }

video_extensions ==
    { <<".","m","p","4">>, <<".","m","o","v">>, <<".","a","v","i">>,
      <<".","m","k","v">>, <<".","m","4","v">>, <<".","3","g","p">> }

\* the keys of the sources dict, in insertion order
SourceNames ==
    << <<"p","r","i","m","a","r","y">>,
       <<"m","e","d","i","a","_","d","r","i","v","e">>,
       <<"e","x","t","e","r","n","a","l">> >>

SourceIds == DOMAIN SourceNames

\* staging subdirectory of a file name, "none" when the file is skipped
DestSubdir(file) ==
    LET extension == Lower(Suffix(file))
    IN  IF extension \in photo_extensions
        THEN (IF extension \in raw_extensions THEN "raw_photos"
              ELSE "processed_photos")
        ELSE IF extension \in video_extensions THEN "videos"
        ELSE "none"

\* a mutation of DestFile: the source prefix is dropped
DestFileNoPrefix(source_name, file) == file

\* f"{source_name}_{file}"
DestFile(source_name, file) == source_name \o <<"_">> \o file

(***************************************************************************)
(* Names used to build the bounded inputs.                                 *)
(***************************************************************************)
N_a_jpg == <<"a",".","j","p","g">>
N_a_JPG == <<"a",".","J","P","G">>
N_a_1_jpg == <<"a","_","1",".","j","p","g">>
N_a_2_jpg == <<"a","_","2",".","j","p","g">>
N_b_cr2 == <<"b",".","c","r","2">>
N_v_mp4 == <<"v",".","m","p","4">>
N_n_txt == <<"n",".","t","x","t">>
N_drive_a_jpg == <<"d","r","i","v","e","_","a",".","j","p","g">>
N_sub == <<"s","u","b">>
N_2020 == <<"2","0","2","0">>
N_2021 == <<"2","0","2","1">>
N_03 == <<"0","3">>
N_04 == <<"0","4">>
N_15 == <<"1","5">>
N_tmp == <<"t","m","p">>

EmptyMap == [n \in {} |-> "x"]

\* a map with the entry n removed
Without(m, n) == [k \in DOMAIN m \ {n} |-> m[k]]

(***************************************************************************)
(* State.                                                                  *)
(***************************************************************************)
VARIABLES
    dry_run,          \* self.dry_run
    pc,               \* position of the run
    sources,          \* the source roots: [exists, files] per source id (read-only)
    srcIdx,           \* gather_all_photos: the source being walked, 0 before the first
    walkRest,         \* os.walk: files of the current source not yet visited
    walkDir,          \* os.walk: the directory being listed
    staged,           \* staging root: existing subdirectory -> (file name -> content)
    files_copied,     \* stats['files_copied']
    duplicates_found, \* stats['duplicates_found']
    errors,           \* stats['errors']
    copyLog,          \* history: the files counted in files_copied, with their destination
    detected,         \* history: the match sets the detector reported, in its order
    jdupes_stdout,    \* result.stdout of the detector, a sequence of tokens
    dupQueue,         \* _handle_duplicates: the files[1:] still to be visited
    pass,             \* number of _handle_duplicates calls started on jdupes_stdout
    staged0,          \* history: staging when deduplication started
    moved,            \* history: duplicate paths relocated, per pass
    moveFailed,       \* history: duplicate paths whose shutil.move raised, per pass
    afterPass1,       \* history: staging when the first pass returned
    organized,        \* <stage_dir>/organized as a tree (empty map: directory absent)
    library,          \* /data/Photography as a tree
    yearTodo,         \* import_to_darktable: entries of organized not yet visited
    mergeStack,       \* _merge_directories: the active calls, innermost last
    lib0,             \* history: the library when the import started
    lastOp,           \* history: the last copy made by the merge
    importRaised,     \* history: an exception reached import_to_darktable's handler
    step,             \* args.step
    stagesRun,        \* history: the stages called, in order
    report_file,      \* the report written by generate_report
    runs,             \* number of times the organize and import stages were started
    libAfterFirst,    \* history: the library when the first import returned
    toolCalls,        \* history: the external programs started, with their outcome
    mtimes,           \* st_mtime of the staged files, as dates (read-only)
    orgDir,           \* organize_by_date: position in photo_dirs, 0 before the first
    orgTodo,          \* organize_by_date: entries of the listing not yet visited
    orgLog            \* history: what organize_by_date did with each file

walkVars == <<srcIdx, walkRest, walkDir>>
statVars == <<files_copied, duplicates_found, errors>>
dedupeVars == <<detected, jdupes_stdout, dupQueue, pass, staged0, moved, moveFailed, afterPass1>>
mergeVars == <<organized, library, yearTodo, mergeStack, lib0, lastOp, importRaised>>
runHist == <<step, stagesRun, report_file, runs, libAfterFirst>>
runVars == <<runHist, toolCalls>>
orgVars == <<mtimes, orgDir, orgTodo, orgLog>>
vars == <<dry_run, pc, sources, walkVars, staged, statVars, copyLog, dedupeVars, mergeVars,
          runVars, orgVars>>

StageSubdirs == {"raw_photos", "processed_photos", "videos", "duplicates"}
PhotoSubdirs == {"raw_photos", "processed_photos"}

NoOp == [kind |-> "none"]

\* values of the variables a stage does not use
DedupeIdle ==
    /\ detected = <<>>
    /\ jdupes_stdout = <<>>
    /\ dupQueue = <<>>
    /\ pass = 0
    /\ staged0 = EmptyMap
    /\ moved = [k \in 1..MaxPasses |-> {}]
    /\ moveFailed = [k \in 1..MaxPasses |-> {}]
    /\ afterPass1 = EmptyMap

MergeIdle ==
    /\ organized = EmptyMap
    /\ library = EmptyMap
    /\ yearTodo = {}
    /\ mergeStack = <<>>
    /\ lib0 = EmptyMap
    /\ lastOp = NoOp
    /\ importRaised = FALSE

NoReport == [written |-> FALSE, files_copied |-> 0, duplicates_found |-> 0, errors |-> <<>>]

RunIdle ==
    /\ step = "all"
    /\ stagesRun = <<>>
    /\ report_file = NoReport
    /\ runs = 0
    /\ libAfterFirst = EmptyMap
    /\ toolCalls = {}

OrganizeIdle ==
    /\ mtimes = EmptyMap
    /\ orgDir = 0
    /\ orgTodo = {}
    /\ orgLog = {}

GatherIdle ==
    /\ sources = [i \in SourceIds |-> [exists |-> FALSE, files |-> {}]]
    /\ srcIdx = 0
    /\ walkRest = {}
    /\ walkDir = <<>>
    /\ copyLog = {}

(***************************************************************************)
(* Source discovery and the staging materializer.                          *)
(***************************************************************************)
SrcFile(d, n, c) == [dir |-> d, name |-> n, data |-> c]

\* the files each source root may hold
SourcePool(i) ==
    IF i = 1 THEN { SrcFile(<<>>, N_a_jpg, "x"), SrcFile(<<N_sub>>, N_a_jpg, "y"),
                    SrcFile(<<>>, N_b_cr2, "x"), SrcFile(<<N_sub>>, N_n_txt, "w") }
    ELSE IF i = 2 THEN { SrcFile(<<>>, N_a_jpg, "y"), SrcFile(<<>>, N_a_JPG, "x"),
                         SrcFile(<<N_sub>>, N_v_mp4, "z") }
    ELSE { SrcFile(<<>>, N_a_jpg, "x"), SrcFile(<<>>, N_drive_a_jpg, "y") }

AllSourceFiles == UNION {SourcePool(i) : i \in SourceIds}

\* the states of the source roots: a root with files exists, an empty one may be absent
SourceStates ==
    { [i \in SourceIds |-> [exists |-> (i \in e \/ fs[i] # {}), files |-> fs[i]]] :
        fs \in { g \in (SUBSET SourcePool(1)) \X (SUBSET SourcePool(2)) \X (SUBSET SourcePool(3)) :
                   Cardinality(g[1]) + Cardinality(g[2]) + Cardinality(g[3]) <= MaxSrcFiles },
        e \in SUBSET SourceIds }

\* the sources dict returned by discover_photo_sources: the roots that exist
Discovered == {i \in SourceIds : sources[i].exists}

Classified(f) == DestSubdir(f.name) # "none"

\* the (source, file) pairs the walk has visited so far
Walked ==
    { <<i, f>> \in Discovered \X UNION {sources[j].files : j \in SourceIds} :
        /\ f \in sources[i].files
        /\ \/ i < srcIdx
           \/ i = srcIdx /\ f \notin walkRest }

\* os.walk is top-down: a directory's own files are listed before its
\* subdirectories are entered, and one directory is listed at a time
WalkNext(f) ==
    /\ f \in walkRest
    /\ (\E g \in walkRest : g.dir = walkDir) => f.dir = walkDir
    /\ \A g \in walkRest : Len(g.dir) >= Len(f.dir)

DestPath(i, f) == [dir |-> DestSubdir(f.name), name |-> DestFile(SourceNames[i], f.name)]

CopyError(i, f) == [kind |-> "copy", src |-> i, dir |-> f.dir, name |-> f.name]

\* shutil.copy2(file_path, dest_path): creates or overwrites dest_path
Copy2Staged(d, n, c) ==
    [staged EXCEPT ![d] = [k \in DOMAIN staged[d] \cup {n} |-> IF k = n THEN c ELSE staged[d][k]]]

\* the stages of run_full_consolidation, in call order
Stages == <<"discover", "prepare", "gather", "dedupe", "organize", "import", "report">>

\* position of the run when a stage has returned
DonePc(stage) ==
    CASE stage = "discover" -> "discover_done"
      [] stage = "prepare" -> "prepare_done"
      [] stage = "gather" -> "gather_done"
      [] stage = "dedupe" -> "dedupe_done"
      [] stage = "organize" -> "organize_done"
      [] stage = "import" -> "import_done"
      [] stage = "report" -> "report_done"

ReturnPc(k) == IF k = 0 THEN "run_start" ELSE DonePc(Stages[k])

\* run_full_consolidation: stage k is called when stage k-1 has returned
RunCall(k) ==
    /\ pc = ReturnPc(k - 1)
    /\ pc' = Stages[k]
    /\ stagesRun' = Append(stagesRun, Stages[k])
    /\ staged0' = IF Stages[k] = "dedupe" THEN staged ELSE staged0
    /\ lib0' = IF Stages[k] = "import" THEN library ELSE lib0
    /\ UNCHANGED <<orgVars, dry_run, sources, walkVars, staged, statVars, copyLog,
                   detected, jdupes_stdout, dupQueue, pass, moved, moveFailed, afterPass1,
                   organized, library, yearTodo, mergeStack, lastOp, importRaised,
                   step, report_file, runs, libAfterFirst, toolCalls>>

FatalError(stage) == [kind |-> "fatal", stage |-> stage]

\* a mutation of RunFails: the exception is recorded and the run goes on
RunFailsContinues(stage) ==
    /\ errors' = Append(errors, FatalError(stage))
    /\ pc' = DonePc(stage)

\* run_full_consolidation: except Exception as e: append str(e), raise
RunFails(stage) ==
    /\ errors' = Append(errors, FatalError(stage))
    /\ pc' = "raised"

SubdirOrder == <<"raw_photos", "processed_photos", "videos", "duplicates">>

Discover ==
    /\ pc = "discover"
    /\ pc' = "discover_done"
    /\ UNCHANGED <<runVars, orgVars, dry_run, sources, walkVars, staged, statVars, copyLog, dedupeVars, mergeVars>>

\* a mutation of prepare_staging_area: the directories are made in a dry run too
prepare_staging_area_always ==
    /\ pc = "prepare"
    /\ staged' = [d \in StageSubdirs |-> IF d \in DOMAIN staged THEN staged[d] ELSE EmptyMap]
    /\ pc' = "prepare_done"
    /\ UNCHANGED <<runVars, orgVars, dry_run, sources, walkVars, statVars, copyLog, dedupeVars, mergeVars>>

prepare_staging_area ==
    /\ pc = "prepare"
    /\ staged' = IF dry_run THEN staged
                 ELSE [d \in StageSubdirs |-> IF d \in DOMAIN staged THEN staged[d] ELSE EmptyMap]
    /\ pc' = "prepare_done"
    /\ UNCHANGED <<runVars, orgVars, dry_run, sources, walkVars, statVars, copyLog, dedupeVars, mergeVars>>

\* prepare_staging_area: a mkdir raises after made subdirectories were created
PrepareRaises(made) ==
    /\ pc = "prepare"
    /\ ~dry_run
    /\ made \in 0..(Len(SubdirOrder) - 1)
    /\ staged' = [d \in DOMAIN staged \cup {SubdirOrder[k] : k \in 1..made} |->
                     IF d \in DOMAIN staged THEN staged[d] ELSE EmptyMap]
    /\ RunFails("prepare")
    /\ UNCHANGED <<runVars, orgVars, dry_run, sources, walkVars, files_copied, duplicates_found,
                   copyLog, dedupeVars, mergeVars>>

\* gather_all_photos: the loop over sources.items()
GatherNextSource ==
    /\ pc = "gather"
    /\ walkRest = {}
    /\ IF \E j \in Discovered : j > srcIdx
       THEN LET j == CHOOSE k \in Discovered : k > srcIdx /\ \A m \in Discovered : m > srcIdx => k <= m
            IN  /\ srcIdx' = j
                /\ walkRest' = sources[j].files
                /\ walkDir' = <<>>
                /\ pc' = pc
       ELSE /\ pc' = "gather_done"
            /\ srcIdx' = Cardinality(SourceIds) + 1
            /\ UNCHANGED <<walkRest, walkDir>>
    /\ UNCHANGED <<runVars, orgVars, dry_run, sources, staged, statVars, copyLog, dedupeVars, mergeVars>>

\* _copy_photos_from_source, one classified file, the copy succeeds (or dry run)
CopyOk(f) ==
    /\ pc = "gather"
    /\ WalkNext(f)
    /\ Classified(f)
    /\ dry_run \/ DestSubdir(f.name) \in DOMAIN staged
    /\ walkRest' = walkRest \ {f}
    /\ walkDir' = f.dir
    /\ LET dest == DestPath(srcIdx, f)
       IN  /\ staged' = IF dry_run THEN staged ELSE Copy2Staged(dest.dir, dest.name, f.data)
           /\ copyLog' = copyLog \cup {[src |-> srcIdx, file |-> f, dest |-> dest]}
    /\ files_copied' = files_copied + 1
    /\ UNCHANGED <<runVars, orgVars, dry_run, pc, sources, srcIdx, duplicates_found, errors, dedupeVars, mergeVars>>

\* a mutation of CopyFail: the failure ends the walk of the source
CopyFailAborts(f) ==
    /\ pc = "gather"
    /\ WalkNext(f)
    /\ Classified(f)
    /\ ~dry_run
    /\ walkRest' = {}
    /\ walkDir' = f.dir
    /\ errors' = Append(errors, CopyError(srcIdx, f))
    /\ UNCHANGED <<runVars, orgVars, dry_run, pc, sources, srcIdx, staged, files_copied, duplicates_found, copyLog, dedupeVars, mergeVars>>

\* _copy_photos_from_source, one classified file, shutil.copy2 raises
CopyFail(f) ==
    /\ pc = "gather"
    /\ WalkNext(f)
    /\ Classified(f)
    /\ ~dry_run
    /\ walkRest' = walkRest \ {f}
    /\ walkDir' = f.dir
    /\ errors' = Append(errors, CopyError(srcIdx, f))
    /\ UNCHANGED <<runVars, orgVars, dry_run, pc, sources, srcIdx, staged, files_copied, duplicates_found, copyLog, dedupeVars, mergeVars>>

\* _copy_photos_from_source, a file of neither class: continue
SkipFile(f) ==
    /\ pc = "gather"
    /\ WalkNext(f)
    /\ ~Classified(f)
    /\ walkRest' = walkRest \ {f}
    /\ walkDir' = f.dir
    /\ UNCHANGED <<runVars, orgVars, dry_run, pc, sources, srcIdx, staged, statVars, copyLog, dedupeVars, mergeVars>>

InitGather ==
    /\ dry_run \in BOOLEAN
    /\ pc = "run_start"
    /\ sources \in SourceStates
    /\ srcIdx = 0
    /\ walkRest = {}
    /\ walkDir = <<>>
    /\ staged = EmptyMap
    /\ files_copied = 0
    /\ duplicates_found = 0
    /\ errors = <<>>
    /\ copyLog = {}
    /\ DedupeIdle
    /\ MergeIdle
    /\ RunIdle
    /\ OrganizeIdle

NextGather ==
    \/ \E k \in 1..3 : RunCall(k)
    \/ Discover
    \/ prepare_staging_area
    \/ GatherNextSource
    \/ \E f \in walkRest : CopyOk(f)
    \/ \E f \in walkRest : CopyFail(f)
    \/ \E f \in walkRest : SkipFile(f)

SpecGather == InitGather /\ [][NextGather]_vars

(***************************************************************************)
(* The duplicate resolver.                                                 *)
(***************************************************************************)
StagedPath(d, n) == [dir |-> d, name |-> n]

\* the newline character of the detector's output
NL == [dir |-> "", name |-> <<>>]

\* Path.exists() for a path of the staging root
StagedExists(st, p) == p.dir \in DOMAIN st /\ p.name \in DOMAIN st[p.dir]

RECURSIVE LStrip(_)
LStrip(t) == IF t # <<>> /\ t[1] = NL THEN LStrip(Tail(t)) ELSE t

RECURSIVE RStrip(_)
RStrip(t) == IF t # <<>> /\ t[Len(t)] = NL THEN RStrip(SubSeq(t, 1, Len(t) - 1)) ELSE t

\* str.strip()
Strip(t) == RStrip(LStrip(t))

\* str.split('\n\n'), cur being the piece read so far
RECURSIVE SplitBlank(_, _)
SplitBlank(t, cur) ==
    IF t = <<>> THEN <<cur>>
    ELSE IF Len(t) >= 2 /\ t[1] = NL /\ t[2] = NL
         THEN <<cur>> \o SplitBlank(SubSeq(t, 3, Len(t)), <<>>)
         ELSE SplitBlank(Tail(t), Append(cur, t[1]))

\* str.split('\n'), cur being the piece read so far
RECURSIVE SplitLines(_, _)
SplitLines(t, cur) ==
    IF t = <<>> THEN <<cur>>
    ELSE IF t[1] = NL
         THEN <<cur>> \o SplitLines(Tail(t), <<>>)
         ELSE SplitLines(Tail(t), Append(cur, t[1]))

\* jdupes_output.strip().split('\n\n')
DuplicateGroups(out) == SplitBlank(Strip(out), <<>>)

\* sum(len(group.split('\n')) - 1 for group in duplicate_groups if group.strip())
RECURSIVE CountDuplicates(_)
CountDuplicates(groups) ==
    IF groups = <<>> THEN 0
    ELSE (IF Strip(groups[1]) # <<>> THEN Len(SplitLines(groups[1], <<>>)) - 1 ELSE 0)
         + CountDuplicates(Tail(groups))

TotalDuplicates(out) == CountDuplicates(DuplicateGroups(out))

\* Path(duplicate_file.strip()) for one line of a group
LinePath(line) == IF Len(line) >= 1 THEN line[1] ELSE NL

\* a mutation of FilesToMove: every member of the group is moved, the first too
FilesToMoveAll(files) == [k \in DOMAIN files |-> LinePath(files[k])]

\* files[1:] of one group
FilesToMove(files) == [k \in 1..(Len(files) - 1) |-> LinePath(files[k + 1])]

\* the paths _handle_duplicates visits, in order
RECURSIVE MoveQueue(_)
MoveQueue(groups) ==
    IF groups = <<>> THEN <<>>
    ELSE LET files == SplitLines(Strip(groups[1]), <<>>)
         IN  (IF Strip(groups[1]) = <<>> \/ Len(files) < 2 THEN <<>> ELSE FilesToMove(files))
             \o MoveQueue(Tail(groups))

\* the detector's output for its match sets: one path per line, a blank line
\* after each set
RECURSIVE RenderGroup(_)
RenderGroup(g) == IF g = <<>> THEN <<NL>> ELSE <<g[1], NL>> \o RenderGroup(Tail(g))

RECURSIVE RenderGroups(_)
RenderGroups(gs) == IF gs = <<>> THEN <<>> ELSE RenderGroup(gs[1]) \o RenderGroups(Tail(gs))

\* the regular files of the two directories the detector is pointed at
PhotoPaths(st) ==
    {p \in [dir : PhotoSubdirs, name : UNION {DOMAIN st[d] : d \in PhotoSubdirs \cap DOMAIN st}] :
        StagedExists(st, p)}

Range(q) == {q[k] : k \in DOMAIN q}

\* orderings of k distinct byte-identical files
MatchSets(st, k) ==
    {g \in [1..k -> PhotoPaths(st)] :
        /\ \A a, b \in 1..k : a # b => g[a] # g[b]
        /\ \A a, b \in 1..k : st[g[a].dir][g[a].name] = st[g[b].dir][g[b].name]}

AllMatchSets(st) == UNION {MatchSets(st, k) : k \in 1..MaxStaged}

\* what the detector may report: at most two disjoint match sets
DetectorReports(st) ==
    {<<>>} \cup {<<g>> : g \in AllMatchSets(st)} \cup
    {<<g, h>> : <<g, h>> \in {x \in AllMatchSets(st) \X AllMatchSets(st) :
                                 Range(x[1]) \cap Range(x[2]) = {}}}

\* a mutation of MoveStaged: the file is copied, its source stays
MoveStagedCopies(st, p, d) ==
    [st EXCEPT ![d] = [k \in DOMAIN st[d] \cup {p.name} |->
                          IF k = p.name THEN st[p.dir][p.name] ELSE st[d][k]]]

\* shutil.move(src, dest) inside the staging root: a rename, replacing dest
MoveStaged(st, p, d) ==
    LET c == st[p.dir][p.name]
        removed == [st EXCEPT ![p.dir] = Without(st[p.dir], p.name)]
    IN  [removed EXCEPT ![d] = [k \in DOMAIN removed[d] \cup {p.name} |->
                                   IF k = p.name THEN c ELSE removed[d][k]]]

\* run_jdupes_deduplication under dry_run: return at once
DedupeDryRun ==
    /\ pc = "dedupe"
    /\ dry_run
    /\ pc' = "dedupe_done"
    /\ UNCHANGED <<runVars, orgVars, dry_run, sources, walkVars, staged, statVars, copyLog, dedupeVars, mergeVars>>

\* run_jdupes_deduplication, returncode 0: count, then call _handle_duplicates
DedupeRun(report) ==
    /\ pc = "dedupe"
    /\ ~dry_run
    /\ detected' = report
    /\ jdupes_stdout' = RenderGroups(report)
    /\ duplicates_found' = TotalDuplicates(jdupes_stdout')
    /\ dupQueue' = MoveQueue(DuplicateGroups(jdupes_stdout'))
    /\ pass' = 1
    /\ pc' = "handle"
    /\ toolCalls' = toolCalls \cup {[tool |-> "jdupes", outcome |-> "ok"]}
    /\ UNCHANGED <<runHist, orgVars, dry_run, sources, walkVars, staged, files_copied, errors, copyLog,
                   staged0, moved, moveFailed, afterPass1, mergeVars>>

\* a mutation of DedupeToolFails: the condition is logged but not recorded
DedupeToolFailsSilent(why) ==
    /\ pc = "dedupe"
    /\ ~dry_run
    /\ errors' = errors
    /\ pc' = "dedupe_done"
    /\ toolCalls' = toolCalls \cup {[tool |-> "jdupes", outcome |-> why]}
    /\ UNCHANGED <<runHist, orgVars, dry_run, sources, walkVars, staged, files_copied, duplicates_found, copyLog,
                   dedupeVars, mergeVars>>

\* run_jdupes_deduplication: non-zero exit, TimeoutExpired or FileNotFoundError
DedupeToolFails(why) ==
    /\ pc = "dedupe"
    /\ ~dry_run
    /\ errors' = Append(errors, [kind |-> why])
    /\ pc' = "dedupe_done"
    /\ toolCalls' = toolCalls \cup {[tool |-> "jdupes", outcome |-> why]}
    /\ UNCHANGED <<runHist, orgVars, dry_run, sources, walkVars, staged, files_copied, duplicates_found, copyLog,
                   dedupeVars, mergeVars>>

\* run_jdupes_deduplication: subprocess.run raises an exception that is neither
\* TimeoutExpired nor FileNotFoundError (the binary cannot be executed)
DedupeRaises ==
    /\ pc = "dedupe"
    /\ ~dry_run
    /\ toolCalls' = toolCalls \cup {[tool |-> "jdupes", outcome |-> "raised"]}
    /\ RunFails("dedupe")
    /\ UNCHANGED <<runHist, orgVars, dry_run, sources, walkVars, staged, files_copied,
                   duplicates_found, copyLog, dedupeVars, mergeVars>>

\* _handle_duplicates, one duplicate_file that exists, shutil.move succeeds
MoveDuplicate ==
    /\ pc = "handle"
    /\ dupQueue # <<>>
    /\ StagedExists(staged, dupQueue[1])
    /\ "duplicates" \in DOMAIN staged
    /\ staged' = MoveStaged(staged, dupQueue[1], "duplicates")
    /\ moved' = [moved EXCEPT ![pass] = @ \cup {dupQueue[1]}]
    /\ dupQueue' = Tail(dupQueue)
    /\ UNCHANGED <<runVars, orgVars, dry_run, pc, sources, walkVars, statVars, copyLog, detected, jdupes_stdout,
                   pass, staged0, moveFailed, afterPass1, mergeVars>>

\* _handle_duplicates, one duplicate_file that exists, shutil.move raises: logged only
MoveDuplicateFails ==
    /\ pc = "handle"
    /\ dupQueue # <<>>
    /\ StagedExists(staged, dupQueue[1])
    /\ moveFailed' = [moveFailed EXCEPT ![pass] = @ \cup {dupQueue[1]}]
    /\ dupQueue' = Tail(dupQueue)
    /\ UNCHANGED <<runVars, orgVars, dry_run, pc, sources, walkVars, staged, statVars, copyLog, detected,
                   jdupes_stdout, pass, staged0, moved, afterPass1, mergeVars>>

\* _handle_duplicates, one duplicate_file that does not exist: nothing is done
SkipMissingDuplicate ==
    /\ pc = "handle"
    /\ dupQueue # <<>>
    /\ ~StagedExists(staged, dupQueue[1])
    /\ dupQueue' = Tail(dupQueue)
    /\ UNCHANGED <<runVars, orgVars, dry_run, pc, sources, walkVars, staged, statVars, copyLog, detected,
                   jdupes_stdout, pass, staged0, moved, moveFailed, afterPass1, mergeVars>>

\* _handle_duplicates returns
HandleReturn ==
    /\ pc = "handle"
    /\ dupQueue = <<>>
    /\ afterPass1' = IF pass = 1 THEN staged ELSE afterPass1
    /\ pc' = "dedupe_done"
    /\ UNCHANGED <<runVars, orgVars, dry_run, sources, walkVars, staged, statVars, copyLog, detected,
                   jdupes_stdout, dupQueue, pass, staged0, moved, moveFailed, mergeVars>>

\* _handle_duplicates called once more on the same detector output
HandleAgain ==
    /\ pc = "dedupe_done"
    /\ pass >= 1
    /\ pass < MaxPasses
    /\ dupQueue' = MoveQueue(DuplicateGroups(jdupes_stdout))
    /\ pass' = pass + 1
    /\ pc' = "handle"
    /\ UNCHANGED <<runVars, orgVars, dry_run, sources, walkVars, staged, statVars, copyLog, detected,
                   jdupes_stdout, staged0, moved, moveFailed, afterPass1, mergeVars>>

\* names gather can have put into the staging root, and older quarantined files
StagedPool ==
    { StagedPath("raw_photos", DestFile(SourceNames[1], N_b_cr2)),
      StagedPath("processed_photos", DestFile(SourceNames[1], N_a_jpg)),
      StagedPath("processed_photos", DestFile(SourceNames[2], N_a_jpg)),
      StagedPath("processed_photos", DestFile(SourceNames[3], N_a_jpg)) }

QuarantinePool == { DestFile(SourceNames[2], N_a_jpg), DestFile(SourceNames[3], N_a_jpg) }

\* the staging root holding the files ps with contents c and the quarantined files q
StagingOf(ps, c, q) ==
    [d \in StageSubdirs |->
        IF d = "duplicates" THEN [n \in q |-> "old"]
        ELSE [n \in {p.name : p \in {r \in ps : r.dir = d}} |-> c[StagedPath(d, n)]]]

StagingStates ==
    { StagingOf(ps, c, q) :
        ps \in {x \in SUBSET StagedPool : Cardinality(x) <= MaxStaged},
        c \in [StagedPool -> {"x", "y"}],
        q \in SUBSET QuarantinePool }

InitDedupe ==
    /\ dry_run \in BOOLEAN
    /\ pc = "dedupe"
    /\ staged \in StagingStates
    /\ staged0 = staged
    /\ files_copied = 0
    /\ duplicates_found = 0
    /\ errors = <<>>
    /\ detected = <<>>
    /\ jdupes_stdout = <<>>
    /\ dupQueue = <<>>
    /\ pass = 0
    /\ moved = [k \in 1..MaxPasses |-> {}]
    /\ moveFailed = [k \in 1..MaxPasses |-> {}]
    /\ afterPass1 = EmptyMap
    /\ GatherIdle
    /\ MergeIdle
    /\ RunIdle
    /\ OrganizeIdle

NextDedupe ==
    \/ DedupeDryRun
    \/ \E report \in (IF pc = "dedupe" THEN DetectorReports(staged) ELSE {}) : DedupeRun(report)
    \/ \E why \in {"jdupes failed", "jdupes timed out", "jdupes not installed"} : DedupeToolFails(why)
    \/ MoveDuplicate
    \/ MoveDuplicateFails
    \/ SkipMissingDuplicate
    \/ HandleReturn
    \/ HandleAgain

SpecDedupe == InitDedupe /\ [][NextDedupe]_vars

(***************************************************************************)
(* Directory trees: the organized hierarchy and the persistent library.    *)
(***************************************************************************)
DIR == "DIR"

\* Path.exists()
Exists(t, p) == p \in DOMAIN t

\* Path.is_dir()
IsDir(t, p) == p \in DOMAIN t /\ t[p] = DIR

IsFile(t, p) == p \in DOMAIN t /\ t[p] # DIR

IsPrefix(p, q) == Len(p) <= Len(q) /\ SubSeq(q, 1, Len(p)) = p

\* the names Path.iterdir() yields for directory p
EntryNames(t, p) == {q[Len(q)] : q \in {r \in DOMAIN t : Len(r) = Len(p) + 1 /\ IsPrefix(p, r)}}

\* p and everything below it
Under(t, p) == {q \in DOMAIN t : IsPrefix(p, q)}

Rebase(q, sp, dp) == dp \o SubSeq(q, Len(sp) + 1, Len(q))

\* the tree t with the nodes qs of tree src, found under sp, added under dp
Graft(t, src, qs, sp, dp) ==
    [x \in DOMAIN t \cup {Rebase(q, sp, dp) : q \in qs} |->
        IF \E q \in qs : Rebase(q, sp, dp) = x
        THEN src[CHOOSE q \in qs : Rebase(q, sp, dp) = x]
        ELSE t[x]]

\* a mutation of CopyTree: the directories are made but no file is copied
CopyTreeDirsOnly(t, src, sp, dp) ==
    Graft(t, src, {q \in Under(src, sp) : src[q] = DIR}, sp, dp)

\* a mutation of CopyTree: the source directory is put inside dp
CopyTreeNested(t, src, sp, dp) ==
    Graft(t, src, Under(src, sp), sp, Append(dp, sp[Len(sp)]))

\* shutil.copytree(sp, dp), dp not existing
CopyTree(t, src, sp, dp) == Graft(t, src, Under(src, sp), sp, dp)

\* what a copytree that raises can leave behind: a part of the tree
PartialCopies(src, sp) ==
    {qs \in SUBSET Under(src, sp) :
        \A q \in qs : \A r \in Under(src, sp) : IsPrefix(r, q) => r \in qs}

\* f"{base_name}_{counter}{extension}"
SuffixedName(base_name, counter, extension) ==
    base_name \o <<"_">> \o DecStr(counter) \o extension

\* while dest_item.exists(): dest_item = dest_dir / f"..."; counter += 1
RECURSIVE NextFree(_, _, _, _, _)
NextFree(t, dest_dir, base_name, extension, counter) ==
    LET cand == SuffixedName(base_name, counter, extension)
    IN  IF Exists(t, Append(dest_dir, cand))
        THEN NextFree(t, dest_dir, base_name, extension, counter + 1)
        ELSE cand

\* a mutation of ResolveName: the existing destination file is written over
ResolveNameOverwrite(t, dest_dir, name) == name

\* a mutation of ResolveName: the counter starts at 2
ResolveNameFromTwo(t, dest_dir, name) ==
    IF Exists(t, Append(dest_dir, name))
    THEN NextFree(t, dest_dir, Stem(name), Suffix(name), 2)
    ELSE name

\* _merge_directories: the name a source file is copied under
ResolveName(t, dest_dir, name) ==
    IF Exists(t, Append(dest_dir, name))
    THEN NextFree(t, dest_dir, Stem(name), Suffix(name), 1)
    ELSE name

\* shutil.copy2(src, dst) with content c: into dst when dst is a directory,
\* else creating or replacing dst
Copy2Tree(t, dst, src_name, c) ==
    LET target == IF IsDir(t, dst) THEN Append(dst, src_name) ELSE dst
    IN  [x \in DOMAIN t \cup {target} |-> IF x = target THEN c ELSE t[x]]

Frame(sp, dp) == [src |-> sp, dest |-> dp, todo |-> EntryNames(organized, sp)]

Top == mergeStack[Len(mergeStack)]

\* the items the innermost call has still to visit
TopTodo == IF mergeStack = <<>> THEN {} ELSE Top.todo

\* the stack with item n of the innermost call done
Visited(n) == [mergeStack EXCEPT ![Len(mergeStack)].todo = @ \ {n}]

ImportError == [kind |-> "import"]

\* the exception handler of import_to_darktable
ImportRaise ==
    /\ errors' = Append(errors, ImportError)
    /\ importRaised' = TRUE
    /\ mergeStack' = <<>>
    /\ yearTodo' = {}
    /\ pc' = "import_done"

\* import_to_darktable under dry_run: return at once
ImportDryRun ==
    /\ pc = "import"
    /\ dry_run
    /\ pc' = "import_done"
    /\ UNCHANGED <<runVars, orgVars, dry_run, sources, walkVars, staged, statVars, copyLog, dedupeVars, mergeVars>>

\* import_to_darktable: the organized directory does not exist, logged only
ImportNoOrganized ==
    /\ pc = "import"
    /\ ~dry_run
    /\ ~Exists(organized, <<>>)
    /\ pc' = "import_done"
    /\ UNCHANGED <<runVars, orgVars, dry_run, sources, walkVars, staged, statVars, copyLog, dedupeVars, mergeVars>>

\* import_to_darktable: organized_dir.iterdir()
ImportBegin ==
    /\ pc = "import"
    /\ ~dry_run
    /\ Exists(organized, <<>>)
    /\ yearTodo' = EntryNames(organized, <<>>)
    /\ pc' = "import_years"
    /\ UNCHANGED <<runVars, orgVars, dry_run, sources, walkVars, staged, statVars, copyLog, dedupeVars,
                   organized, library, mergeStack, lib0, lastOp, importRaised>>

IsYearDir(y) == IsDir(organized, <<y>>) /\ IsDigit(y)

\* import_to_darktable: an entry that is no directory with a numeric name
ImportSkipEntry(y) ==
    /\ pc = "import_years"
    /\ mergeStack = <<>>
    /\ y \in yearTodo
    /\ ~IsYearDir(y)
    /\ yearTodo' = yearTodo \ {y}
    /\ UNCHANGED <<runVars, orgVars, dry_run, pc, sources, walkVars, staged, statVars, copyLog, dedupeVars,
                   organized, library, mergeStack, lib0, lastOp, importRaised>>

\* import_to_darktable: dest_year_dir exists, call _merge_directories
ImportYearMerge(y) ==
    /\ pc = "import_years"
    /\ mergeStack = <<>>
    /\ y \in yearTodo
    /\ IsYearDir(y)
    /\ Exists(library, <<y>>)
    /\ yearTodo' = yearTodo \ {y}
    /\ mergeStack' = <<Frame(<<y>>, <<y>>)>>
    /\ UNCHANGED <<runVars, orgVars, dry_run, pc, sources, walkVars, staged, statVars, copyLog, dedupeVars,
                   organized, library, lib0, lastOp, importRaised>>

\* import_to_darktable: dest_year_dir does not exist, copytree succeeds
ImportYearCopy(y) ==
    /\ pc = "import_years"
    /\ mergeStack = <<>>
    /\ y \in yearTodo
    /\ IsYearDir(y)
    /\ ~Exists(library, <<y>>)
    /\ yearTodo' = yearTodo \ {y}
    /\ library' = CopyTree(library, organized, <<y>>, <<y>>)
    /\ lastOp' = [kind |-> "copytree", src |-> <<y>>, dest_dir |-> <<>>, name |-> y, conflict |-> FALSE]
    /\ UNCHANGED <<runVars, orgVars, dry_run, pc, sources, walkVars, staged, statVars, copyLog, dedupeVars,
                   organized, mergeStack, lib0, importRaised>>

\* import_to_darktable: dest_year_dir does not exist, copytree raises
ImportYearCopyFails(y, part) ==
    /\ pc = "import_years"
    /\ mergeStack = <<>>
    /\ y \in yearTodo
    /\ IsYearDir(y)
    /\ ~Exists(library, <<y>>)
    /\ part \in PartialCopies(organized, <<y>>)
    /\ library' = Graft(library, organized, part, <<y>>, <<y>>)
    /\ ImportRaise
    /\ UNCHANGED <<runVars, orgVars, dry_run, sources, walkVars, staged, files_copied, duplicates_found, copyLog,
                   dedupeVars, organized, lib0, lastOp>>

\* _merge_directories: src_item is a directory and dest_item exists, recurse
MergeDescend(n) ==
    /\ pc = "import_years"
    /\ mergeStack # <<>>
    /\ n \in Top.todo
    /\ IsDir(organized, Append(Top.src, n))
    /\ Exists(library, Append(Top.dest, n))
    /\ mergeStack' = Append(Visited(n), Frame(Append(Top.src, n), Append(Top.dest, n)))
    /\ UNCHANGED <<runVars, orgVars, dry_run, pc, sources, walkVars, staged, statVars, copyLog, dedupeVars,
                   organized, library, yearTodo, lib0, lastOp, importRaised>>

\* _merge_directories: src_item is a directory and dest_item does not exist,
\* copytree succeeds
MergeCopyTree(n) ==
    /\ pc = "import_years"
    /\ mergeStack # <<>>
    /\ n \in Top.todo
    /\ IsDir(organized, Append(Top.src, n))
    /\ ~Exists(library, Append(Top.dest, n))
    /\ IsDir(library, Top.dest)
    /\ library' = CopyTree(library, organized, Append(Top.src, n), Append(Top.dest, n))
    /\ lastOp' = [kind |-> "copytree", src |-> Append(Top.src, n), dest_dir |-> Top.dest,
                  name |-> n, conflict |-> FALSE]
    /\ mergeStack' = Visited(n)
    /\ UNCHANGED <<runVars, orgVars, dry_run, pc, sources, walkVars, staged, statVars, copyLog, dedupeVars,
                   organized, yearTodo, lib0, importRaised>>

\* _merge_directories: src_item is a directory and dest_item does not exist,
\* copytree raises (always so when dest_dir is a regular file)
MergeCopyTreeFails(n, part) ==
    /\ pc = "import_years"
    /\ mergeStack # <<>>
    /\ n \in Top.todo
    /\ IsDir(organized, Append(Top.src, n))
    /\ ~Exists(library, Append(Top.dest, n))
    /\ part \in PartialCopies(organized, Append(Top.src, n))
    /\ ~IsDir(library, Top.dest) => part = {}
    /\ library' = Graft(library, organized, part, Append(Top.src, n), Append(Top.dest, n))
    /\ ImportRaise
    /\ UNCHANGED <<runVars, orgVars, dry_run, sources, walkVars, staged, files_copied, duplicates_found, copyLog,
                   dedupeVars, organized, lib0, lastOp>>

\* _merge_directories: src_item is a file, copied under its own name or, when
\* that exists, under the first free suffixed name
MergeCopyFile(n) ==
    /\ pc = "import_years"
    /\ mergeStack # <<>>
    /\ n \in Top.todo
    /\ ~IsDir(organized, Append(Top.src, n))
    /\ IsDir(library, Top.dest)
    /\ LET name == ResolveName(library, Top.dest, n)
       IN  /\ library' = Copy2Tree(library, Append(Top.dest, name), n, organized[Append(Top.src, n)])
           /\ lastOp' = [kind |-> "copy2", src |-> Append(Top.src, n), dest_dir |-> Top.dest,
                         name |-> name, conflict |-> Exists(library, Append(Top.dest, n))]
    /\ mergeStack' = Visited(n)
    /\ UNCHANGED <<runVars, orgVars, dry_run, pc, sources, walkVars, staged, statVars, copyLog, dedupeVars,
                   organized, yearTodo, lib0, importRaised>>

\* _merge_directories: src_item is a file and shutil.copy2 raises (always so
\* when dest_dir is a regular file); a truncated new file may be left behind
MergeCopyFileFails(n, truncated) ==
    /\ pc = "import_years"
    /\ mergeStack # <<>>
    /\ n \in Top.todo
    /\ ~IsDir(organized, Append(Top.src, n))
    /\ ~IsDir(library, Top.dest) => ~truncated
    /\ library' = IF truncated
                  THEN Copy2Tree(library, Append(Top.dest, ResolveName(library, Top.dest, n)), n, "truncated")
                  ELSE library
    /\ ImportRaise
    /\ UNCHANGED <<runVars, orgVars, dry_run, sources, walkVars, staged, files_copied, duplicates_found, copyLog,
                   dedupeVars, organized, lib0, lastOp>>

\* _merge_directories returns
MergeReturn ==
    /\ pc = "import_years"
    /\ mergeStack # <<>>
    /\ Top.todo = {}
    /\ mergeStack' = SubSeq(mergeStack, 1, Len(mergeStack) - 1)
    /\ UNCHANGED <<runVars, orgVars, dry_run, pc, sources, walkVars, staged, statVars, copyLog, dedupeVars,
                   organized, library, yearTodo, lib0, lastOp, importRaised>>

\* import_to_darktable: the library scan ran, or is missing, or timed out
ImportScan ==
    /\ pc = "import_years"
    /\ mergeStack = <<>>
    /\ yearTodo = {}
    /\ pc' = "import_done"
    /\ toolCalls' = toolCalls \cup {[tool |-> "darktable-cli", outcome |-> "returned"]}
    /\ UNCHANGED <<runHist, orgVars, dry_run, sources, walkVars, staged, statVars, copyLog, dedupeVars, mergeVars>>

\* import_to_darktable: starting the library scan raises another exception
ImportScanRaises ==
    /\ pc = "import_years"
    /\ mergeStack = <<>>
    /\ yearTodo = {}
    /\ ImportRaise
    /\ toolCalls' = toolCalls \cup {[tool |-> "darktable-cli", outcome |-> "raised"]}
    /\ UNCHANGED <<runHist, orgVars, dry_run, sources, walkVars, staged, files_copied, duplicates_found, copyLog,
                   dedupeVars, organized, library, lib0, lastOp>>

TreeFile(p, c) == [path |-> p, node |-> c]

\* the ancestors of path p, the root included
Ancestors(p) == {SubSeq(p, 1, k) : k \in 0..(Len(p) - 1)}

\* the tree holding the entries es and the directories leading to them
TreeOf(es) ==
    LET paths == {e.path : e \in es}
        dirs == UNION {Ancestors(p) : p \in paths} \cup {<<>>}
    IN  [x \in paths \cup dirs |->
            IF x \in paths /\ x \notin UNION {Ancestors(p) : p \in paths}
            THEN (CHOOSE e \in es : e.path = x).node
            ELSE DIR]

\* what organize_by_date produces, and a stray directory left in organized/
OrganizedPool ==
    { TreeFile(<<N_2020, N_03, N_15, N_a_jpg>>, "new1"),
      TreeFile(<<N_2020, N_03, N_15, N_a_1_jpg>>, "new2"),
      TreeFile(<<N_2020, N_04, N_15, N_a_jpg>>, "new3"),
      TreeFile(<<N_2021, N_03, N_15, N_a_jpg>>, "new4") }

OrganizedStates ==
    {EmptyMap} \cup
    { TreeOf(es \cup stray) :
        es \in {x \in SUBSET OrganizedPool : Cardinality(x) <= MaxOrganized},
        stray \in {{}, {TreeFile(<<N_tmp>>, DIR)}} }

\* what the library may hold before the import
LibraryPool ==
    { TreeFile(<<N_2020, N_03, N_15, N_a_jpg>>, "old1"),
      TreeFile(<<N_2020, N_03, N_15, N_a_1_jpg>>, "old2"),
      TreeFile(<<N_2020, N_03, N_15, N_b_cr2>>, "old3"),
      TreeFile(<<N_2020, N_04>>, "old4"),
      TreeFile(<<N_2021>>, "old5"),
      TreeFile(<<N_2020>>, DIR),
      TreeFile(<<N_2020, N_03>>, DIR) }

LibraryStates ==
    { TreeOf(es) : es \in {x \in SUBSET LibraryPool : Cardinality(x) <= MaxLibrary} }

InitMerge ==
    /\ dry_run \in BOOLEAN
    /\ pc = "import"
    /\ organized \in OrganizedStates
    /\ library \in LibraryStates
    /\ lib0 = library
    /\ yearTodo = {}
    /\ mergeStack = <<>>
    /\ lastOp = NoOp
    /\ importRaised = FALSE
    /\ staged = [d \in StageSubdirs |-> EmptyMap]
    /\ files_copied = 0
    /\ duplicates_found = 0
    /\ errors = <<>>
    /\ GatherIdle
    /\ DedupeIdle
    /\ RunIdle
    /\ OrganizeIdle

NextMerge ==
    \/ ImportDryRun
    \/ ImportNoOrganized
    \/ ImportBegin
    \/ \E y \in yearTodo : ImportSkipEntry(y)
    \/ \E y \in yearTodo : ImportYearMerge(y)
    \/ \E y \in yearTodo : ImportYearCopy(y)
    \/ \E y \in yearTodo : \E part \in PartialCopies(organized, <<y>>) : ImportYearCopyFails(y, part)
    \/ \E n \in TopTodo : MergeDescend(n)
    \/ \E n \in TopTodo : MergeCopyTree(n)
    \/ \E n \in TopTodo : \E part \in PartialCopies(organized, Append(Top.src, n)) :
          MergeCopyTreeFails(n, part)
    \/ \E n \in TopTodo : MergeCopyFile(n)
    \/ \E n \in TopTodo : \E truncated \in BOOLEAN :
          MergeCopyFileFails(n, truncated)
    \/ MergeReturn
    \/ ImportScan
    \/ ImportScanRaises

SpecMerge == InitMerge /\ [][NextMerge]_vars

(***************************************************************************)
(* The temporal organizer: capture date, date bucket, move.                *)
(***************************************************************************)
MaxOrgFiles == 2

Date(y, m, d) == [year |-> y, month |-> m, day |-> d]

NoDate == Date(0, 0, 0)

\* the tokens of the metadata reader's stdout
Tok(k) == [tok |-> k, year |-> 0, month |-> 0, day |-> 0]

\* a printed "YYYY:MM:DD HH:MM:SS" value
DateTok(y, m, d) == [tok |-> "date", year |-> y, month |-> m, day |-> d]

LABEL == Tok("Date/Time Original")
COLON == Tok(":")
SP == Tok(" ")
LF == Tok("\n")
JUNK == Tok("junk")

IsSpace(t) == t = SP \/ t = LF

\* str.strip() on the reader's stdout
RECURSIVE StripWs(_)
StripWs(out) ==
    IF out # <<>> /\ IsSpace(out[1]) THEN StripWs(Tail(out))
    ELSE IF out # <<>> /\ IsSpace(out[Len(out)]) THEN StripWs(SubSeq(out, 1, Len(out) - 1))
    ELSE out

\* 'Date/Time Original' in result.stdout
HasLabel(out) == \E i \in DOMAIN out : out[i] = LABEL

\* ': ' occurs at position i
SepAt(out, i) == i + 1 <= Len(out) /\ out[i] = COLON /\ out[i + 1] = SP

HasSep(out) == \E i \in DOMAIN out : SepAt(out, i)

\* date_line.split(': ', 1)[1], defined when the separator occurs
AfterSep(out) ==
    LET i == CHOOSE k \in DOMAIN out : SepAt(out, k) /\ \A j \in 1..(k - 1) : ~SepAt(out, j)
    IN  SubSeq(out, i + 2, Len(out))

\* datetime.strptime(date_str, '%Y:%m:%d %H:%M:%S') does not raise ValueError
Parses(date_str) ==
    /\ Len(date_str) = 1
    /\ date_str[1].tok = "date"
    /\ date_str[1].year \in 1..9999
    /\ date_str[1].month \in 1..12
    /\ date_str[1].day \in 1..31

\* what subprocess.run(exiftool) gives: an exit status with stdout, or an exception
ReaderExit(rc, out) == [kind |-> "exit", rc |-> rc, stdout |-> out]

ReaderRaises(kind) == [kind |-> kind, rc |-> 0, stdout |-> <<>>]

\* the line the reader prints for the field: label, ': ', value, newline
Printed(value) == <<LABEL, COLON, SP>> \o value \o <<LF>>

\* the calendar dates of the bounded inputs
D_capture == Date(2019, 7, 4)
D_mtime == Date(2023, 11, 5)

ReaderResults ==
    { ReaderRaises("missing"), ReaderRaises("timeout"), ReaderRaises("oserror"),
      ReaderExit(1, Printed(<<DateTok(2019, 7, 4)>>)),
      ReaderExit(0, <<>>),
      ReaderExit(0, Printed(<<DateTok(2019, 7, 4)>>)),
      ReaderExit(0, Printed(<<DateTok(999, 12, 25)>>)),
      ReaderExit(0, Printed(<<DateTok(0, 0, 0)>>)),
      ReaderExit(0, Printed(<<JUNK>>)),
      ReaderExit(0, Printed(<<>>)) }

MTimes == {D_mtime, D_capture}

DateResult(via, date) == [via |-> via, date |-> date]

\* a mutation of PhotoDate: the modification time is always used
PhotoDateMtimeOnly(res, mtime) ==
    IF res.kind = "oserror" THEN DateResult("raise", NoDate) ELSE DateResult("mtime", mtime)

\* _get_photo_date: the capture date, else the modification time; "raise" when an
\* exception leaves the function (only TimeoutExpired, FileNotFoundError and
\* ValueError are caught)
PhotoDate(res, mtime) ==
    IF res.kind = "oserror" THEN DateResult("raise", NoDate)
    ELSE IF res.kind = "exit" /\ res.rc = 0 /\ HasLabel(res.stdout)
    THEN LET date_line == StripWs(res.stdout)
         IN  IF ~HasSep(date_line) THEN DateResult("raise", NoDate)
             ELSE IF Parses(AfterSep(date_line))
                  THEN LET t == AfterSep(date_line)[1]
                       IN  DateResult("capture", Date(t.year, t.month, t.day))
                  ELSE DateResult("mtime", mtime)
    ELSE DateResult("mtime", mtime)

\* a mutation of Pad2: no padding
Pad2Plain(n) == DecStr(n)

\* f"{n:02d}"
Pad2(n) == IF n < 10 THEN <<"0">> \o DecStr(n) ELSE DecStr(n)

\* day_dir relative to organized/: str(year) / f"{month:02d}" / f"{day:02d}"
BucketPath(date) == <<DecStr(date.year), Pad2(date.month), Pad2(date.day)>>

\* a mutation of photo_dirs: the organizer also lists videos/
photo_dirs_with_videos == <<"raw_photos", "processed_photos", "videos">>

photo_dirs == <<"raw_photos", "processed_photos">>

\* Path.mkdir(parents=True, exist_ok=True)
MkdirP(t, p) ==
    [x \in DOMAIN t \cup Ancestors(p) \cup {p} |-> IF x \in DOMAIN t THEN t[x] ELSE DIR]

\* st_mtime of a staged file
MTimeOf(p) == IF p \in DOMAIN mtimes THEN mtimes[p] ELSE D_mtime

OrgEntry(p, res, got, outcome) ==
    [path |-> p, res |-> res, via |-> got.via, date |-> got.date, outcome |-> outcome]

ReaderCall(res) == [tool |-> "exiftool", outcome |-> res.kind]

\* organize_by_date under dry_run: return at once
OrganizeDryRun ==
    /\ pc = "organize"
    /\ dry_run
    /\ pc' = "organize_done"
    /\ UNCHANGED <<runVars, orgVars, dry_run, sources, walkVars, staged, statVars, copyLog,
                   dedupeVars, mergeVars>>

\* organize_by_date: organized_dir.mkdir(exist_ok=True)
OrganizeBegin ==
    /\ pc = "organize"
    /\ ~dry_run
    /\ organized' = MkdirP(organized, <<>>)
    /\ orgDir' = 0
    /\ orgTodo' = {}
    /\ pc' = "organize_dirs"
    /\ UNCHANGED <<runVars, mtimes, orgLog, dry_run, sources, walkVars, staged, statVars, copyLog,
                   dedupeVars, library, yearTodo, mergeStack, lib0, lastOp, importRaised>>

\* organize_by_date: organized_dir.mkdir or photo_dir.iterdir raises; neither
\* is inside the per-file try block
OrganizeRaises ==
    /\ ~dry_run
    /\ \/ pc = "organize"
       \/ /\ pc = "organize_dirs"
          /\ orgTodo = {}
          /\ orgDir < Len(photo_dirs)
          /\ photo_dirs[orgDir + 1] \in DOMAIN staged
    /\ orgTodo' = {}
    /\ RunFails("organize")
    /\ UNCHANGED <<runVars, mtimes, orgDir, orgLog, dry_run, sources, walkVars, staged,
                   files_copied, duplicates_found, copyLog, dedupeVars, mergeVars>>

\* organize_by_date: the loop over photo_dirs; a directory that does not exist
\* is passed over
OrganizeNextDir ==
    /\ pc = "organize_dirs"
    /\ orgTodo = {}
    /\ IF orgDir < Len(photo_dirs)
       THEN /\ orgDir' = orgDir + 1
            /\ orgTodo' = IF photo_dirs[orgDir + 1] \in DOMAIN staged
                          THEN DOMAIN staged[photo_dirs[orgDir + 1]]
                          ELSE {}
            /\ pc' = pc
       ELSE /\ pc' = "organize_done"
            /\ UNCHANGED <<orgDir, orgTodo>>
    /\ UNCHANGED <<runVars, mtimes, orgLog, dry_run, sources, walkVars, staged, statVars, copyLog,
                   dedupeVars, mergeVars>>

\* organize_by_date, one file: date, mkdir of the day directory, move
OrganizeFile(n, res) ==
    /\ pc = "organize_dirs"
    /\ n \in orgTodo
    /\ LET p == StagedPath(photo_dirs[orgDir], n)
           got == PhotoDate(res, MTimeOf(p))
           day_dir == BucketPath(got.date)
       IN  /\ got.via # "raise"
           /\ organized' = Copy2Tree(MkdirP(organized, day_dir), Append(day_dir, n), n,
                                     staged[p.dir][n])
           /\ staged' = [staged EXCEPT ![p.dir] = Without(@, n)]
           /\ orgLog' = orgLog \cup {OrgEntry(p, res, got, "moved")}
    /\ orgTodo' = orgTodo \ {n}
    /\ toolCalls' = toolCalls \cup {ReaderCall(res)}
    /\ UNCHANGED <<runHist, mtimes, orgDir, dry_run, pc, sources, walkVars, statVars, copyLog,
                   dedupeVars, library, yearTodo, mergeStack, lib0, lastOp, importRaised>>

\* a mutation of OrganizeFileFails: the exception ends the stage
OrganizeFileFailsAborts(n, res, why) ==
    /\ pc = "organize_dirs"
    /\ n \in orgTodo
    /\ LET p == StagedPath(photo_dirs[orgDir], n)
           got == PhotoDate(res, MTimeOf(p))
       IN  /\ why = "date" <=> got.via = "raise"
           /\ why = "stat" => got.via = "mtime"
           /\ organized' = IF why = "move" THEN MkdirP(organized, BucketPath(got.date))
                           ELSE organized
           /\ orgLog' = orgLog \cup {OrgEntry(p, res, got, why)}
    /\ orgTodo' = {}
    /\ orgDir' = Len(photo_dirs)
    /\ toolCalls' = toolCalls \cup {ReaderCall(res)}
    /\ UNCHANGED <<runHist, mtimes, dry_run, pc, sources, walkVars, staged, statVars,
                   copyLog, dedupeVars, library, yearTodo, mergeStack, lib0, lastOp, importRaised>>

\* organize_by_date, one file, an exception inside the try block: raised by
\* _get_photo_date ("date"), by stat() in the fallback ("stat"), or by
\* shutil.move after the day directory was made ("move"); logged only
OrganizeFileFails(n, res, why) ==
    /\ pc = "organize_dirs"
    /\ n \in orgTodo
    /\ LET p == StagedPath(photo_dirs[orgDir], n)
           got == PhotoDate(res, MTimeOf(p))
       IN  /\ why = "date" <=> got.via = "raise"
           /\ why = "stat" => got.via = "mtime"
           /\ organized' = IF why = "move" THEN MkdirP(organized, BucketPath(got.date))
                           ELSE organized
           /\ orgLog' = orgLog \cup {OrgEntry(p, res, got, why)}
    /\ orgTodo' = orgTodo \ {n}
    /\ toolCalls' = toolCalls \cup {ReaderCall(res)}
    /\ UNCHANGED <<runHist, mtimes, orgDir, dry_run, pc, sources, walkVars, staged, statVars,
                   copyLog, dedupeVars, library, yearTodo, mergeStack, lib0, lastOp, importRaised>>

\* the staged photos handed to the organizer
OrgPool ==
    { StagedPath("raw_photos", DestFile(SourceNames[1], N_b_cr2)),
      StagedPath("processed_photos", DestFile(SourceNames[1], N_a_jpg)),
      StagedPath("processed_photos", DestFile(SourceNames[3], N_a_jpg)) }

\* the staging root holding the photos ps; a photo directory without files may
\* be missing
OrgStagingStates ==
    { [d \in StageSubdirs \ gone |-> [n \in {p.name : p \in {r \in ps : r.dir = d}} |-> "x"]] :
        ps \in {x \in SUBSET OrgPool : Cardinality(x) <= MaxOrgFiles},
        gone \in {{}, {"raw_photos"}} }

\* organized/ before the stage: absent, empty, or holding a file of an earlier run
OrganizedBefore ==
    { EmptyMap, MkdirP(EmptyMap, <<>>),
      TreeOf({TreeFile(Append(BucketPath(D_capture), DestFile(SourceNames[1], N_a_jpg)), "old")}) }

\* failures of stat() and shutil.move are tried with these reader results
IOFailResults == {ReaderRaises("missing"), ReaderExit(0, Printed(<<DateTok(2019, 7, 4)>>))}

InitOrganize ==
    /\ dry_run \in BOOLEAN
    /\ pc = "organize"
    /\ staged \in OrgStagingStates
    /\ mtimes \in [PhotoPaths(staged) -> MTimes]
    /\ organized \in OrganizedBefore
    /\ orgDir = 0
    /\ orgTodo = {}
    /\ orgLog = {}
    /\ files_copied = 0
    /\ duplicates_found = 0
    /\ errors = <<>>
    /\ library = EmptyMap
    /\ yearTodo = {}
    /\ mergeStack = <<>>
    /\ lib0 = EmptyMap
    /\ lastOp = NoOp
    /\ importRaised = FALSE
    /\ GatherIdle
    /\ DedupeIdle
    /\ RunIdle

NextOrganize ==
    \/ OrganizeDryRun
    \/ OrganizeBegin
    \/ OrganizeRaises
    \/ OrganizeNextDir
    \/ \E n \in orgTodo : \E res \in ReaderResults : OrganizeFile(n, res)
    \/ \E n \in orgTodo : \E res \in ReaderResults : OrganizeFileFails(n, res, "date")
    \/ \E n \in orgTodo : \E res \in IOFailResults : \E why \in {"stat", "move"} :
          OrganizeFileFails(n, res, why)

SpecOrganize == InitOrganize /\ [][NextOrganize]_vars

(***************************************************************************)
(* The command surface, the full run and the report.                       *)
(***************************************************************************)
MaxRunFiles == 2

Steps == {"discover", "gather", "dedupe", "organize", "import", "all"}

\* main: args.step == 'discover'
MainDiscover ==
    /\ pc = "main"
    /\ step = "discover"
    /\ stagesRun' = Append(stagesRun, "discover")
    /\ pc' = "exit"
    /\ UNCHANGED <<orgVars, dry_run, sources, walkVars, staged, statVars, copyLog, dedupeVars,
                   mergeVars, step, report_file, runs, libAfterFirst, toolCalls>>

\* main: args.step == 'all'
MainAll ==
    /\ pc = "main"
    /\ step = "all"
    /\ pc' = "run_start"
    /\ UNCHANGED <<runVars, orgVars, dry_run, sources, walkVars, staged, statVars, copyLog,
                   dedupeVars, mergeVars>>

\* main: any other step: "not implemented yet" is logged
MainNotImplemented ==
    /\ pc = "main"
    /\ step \notin {"discover", "all"}
    /\ pc' = "exit"
    /\ UNCHANGED <<runVars, orgVars, dry_run, sources, walkVars, staged, statVars, copyLog,
                   dedupeVars, mergeVars>>

\* generate_report: the statistics are written to the report file
generate_report ==
    /\ pc = "report"
    /\ report_file' = [written |-> TRUE, files_copied |-> files_copied,
                       duplicates_found |-> duplicates_found, errors |-> errors]
    /\ pc' = "report_done"
    /\ UNCHANGED <<orgVars, dry_run, sources, walkVars, staged, statVars, copyLog, dedupeVars,
                   mergeVars, step, stagesRun, runs, libAfterFirst, toolCalls>>

\* generate_report: opening or writing the report file raises
ReportRaises ==
    /\ pc = "report"
    /\ RunFails("report")
    /\ UNCHANGED <<runVars, orgVars, dry_run, sources, walkVars, staged, files_copied,
                   duplicates_found, copyLog, dedupeVars, mergeVars>>

\* the source roots of the full run; /data/Photography holds a photo that an
\* earlier run put into its date bucket
RunSourcePool(i) ==
    IF i = 1 THEN { SrcFile(<<>>, N_a_jpg, "x"), SrcFile(<<N_sub>>, N_n_txt, "w"),
                    SrcFile(BucketPath(D_capture), DestFile(SourceNames[3], N_a_jpg), "old") }
    ELSE IF i = 2 THEN { SrcFile(<<N_sub>>, N_v_mp4, "z") }
    ELSE { SrcFile(<<>>, N_a_jpg, "x"), SrcFile(<<>>, N_b_cr2, "x") }

RunSourceStates ==
    { [i \in SourceIds |-> [exists |-> (e \/ fs[i] # {}), files |-> fs[i]]] :
        fs \in { g \in (SUBSET RunSourcePool(1)) \X (SUBSET RunSourcePool(2))
                        \X (SUBSET RunSourcePool(3)) :
                   Cardinality(g[1]) + Cardinality(g[2]) + Cardinality(g[3]) <= MaxRunFiles },
        e \in BOOLEAN }

\* final_photo_dir is the root of the 'primary' source: the library is that tree
LibraryOf(src) ==
    IF src.exists THEN TreeOf({TreeFile(Append(f.dir, f.name), f.data) : f \in src.files})
    ELSE EmptyMap

D_run_mtime == Date(2019, 11, 5)

\* every staged photo of the full run has the same modification date
RunMTimes ==
    [p \in {StagedPath(DestSubdir(f.name), DestFile(SourceNames[i], f.name)) :
               <<i, f>> \in {x \in SourceIds \X UNION {RunSourcePool(j) : j \in SourceIds} :
                               x[2] \in RunSourcePool(x[1])}} |-> D_run_mtime]

\* the reader results tried in the full run
RunReaderResults ==
    { ReaderRaises("missing"),
      ReaderExit(0, Printed(<<DateTok(2019, 7, 4)>>)),
      ReaderExit(0, Printed(<<>>)) }

InitRun ==
    /\ dry_run \in BOOLEAN
    /\ step \in Steps
    /\ pc = "main"
    /\ sources \in RunSourceStates
    /\ library = LibraryOf(sources[1])
    /\ lib0 = EmptyMap
    /\ organized = EmptyMap
    /\ yearTodo = {}
    /\ mergeStack = <<>>
    /\ lastOp = NoOp
    /\ importRaised = FALSE
    /\ srcIdx = 0
    /\ walkRest = {}
    /\ walkDir = <<>>
    /\ staged = EmptyMap
    /\ files_copied = 0
    /\ duplicates_found = 0
    /\ errors = <<>>
    /\ copyLog = {}
    /\ stagesRun = <<>>
    /\ report_file = NoReport
    /\ runs = 0
    /\ libAfterFirst = EmptyMap
    /\ toolCalls = {}
    /\ mtimes = RunMTimes
    /\ orgDir = 0
    /\ orgTodo = {}
    /\ orgLog = {}
    /\ DedupeIdle

\* the steps of one invocation of the program; the branches of the stages that
\* need a listed duplicate to be gone, or organized/ to be missing or to hold
\* something else than year directories, cannot be taken inside a full run
NextRun ==
    \/ MainDiscover
    \/ MainAll
    \/ MainNotImplemented
    \/ \E k \in DOMAIN Stages : RunCall(k)
    \/ Discover
    \/ prepare_staging_area
    \/ \E made \in 0..(Len(SubdirOrder) - 1) : PrepareRaises(made)
    \/ GatherNextSource
    \/ \E f \in walkRest : CopyOk(f)
    \/ \E f \in walkRest : CopyFail(f)
    \/ \E f \in walkRest : SkipFile(f)
    \/ DedupeDryRun
    \/ \E rep \in (IF pc = "dedupe" THEN DetectorReports(staged) ELSE {}) : DedupeRun(rep)
    \/ \E why \in {"jdupes failed", "jdupes timed out", "jdupes not installed"} : DedupeToolFails(why)
    \/ DedupeRaises
    \/ MoveDuplicate
    \/ MoveDuplicateFails
    \/ HandleReturn
    \/ OrganizeDryRun
    \/ OrganizeBegin
    \/ OrganizeRaises
    \/ OrganizeNextDir
    \/ \E n \in orgTodo : \E res \in RunReaderResults : OrganizeFile(n, res)
    \/ \E n \in orgTodo : \E res \in RunReaderResults : OrganizeFileFails(n, res, "date")
    \/ \E n \in orgTodo : OrganizeFileFails(n, ReaderRaises("missing"), "move")
    \/ ImportDryRun
    \/ ImportBegin
    \/ \E y \in yearTodo : ImportYearMerge(y)
    \/ \E y \in yearTodo : ImportYearCopy(y)
    \/ \E y \in yearTodo : ImportYearCopyFails(y, {})
    \/ \E n \in TopTodo : MergeDescend(n)
    \/ \E n \in TopTodo : MergeCopyTree(n)
    \/ \E n \in TopTodo : MergeCopyTreeFails(n, {})
    \/ \E n \in TopTodo : MergeCopyFile(n)
    \/ \E n \in TopTodo : MergeCopyFileFails(n, FALSE)
    \/ MergeReturn
    \/ ImportScan
    \/ ImportScanRaises
    \/ generate_report
    \/ ReportRaises

SpecRun == InitRun /\ [][NextRun]_vars

(***************************************************************************)
(* The organize and import stages run again on the same staging root.      *)
(***************************************************************************)
MaxRuns == 2

\* organize_by_date and import_to_darktable are called once more
RerunStages ==
    /\ pc = "import_done"
    /\ runs < MaxRuns
    /\ runs' = runs + 1
    /\ libAfterFirst' = IF runs = 1 THEN library ELSE libAfterFirst
    /\ stagesRun' = Append(stagesRun, "organize")
    /\ pc' = "organize"
    /\ UNCHANGED <<orgVars, dry_run, sources, walkVars, staged, statVars, copyLog, dedupeVars,
                   mergeVars, step, report_file, toolCalls>>

\* the library before the first of the runs
RerunLibraries ==
    { TreeOf({}),
      TreeOf({TreeFile(<<DecStr(D_mtime.year)>>, DIR)}),
      TreeOf({TreeFile(Append(BucketPath(D_capture), DestFile(SourceNames[1], N_a_jpg)), "old")}) }

InitRerun ==
    /\ dry_run = FALSE
    /\ pc = "organize"
    /\ staged \in OrgStagingStates
    /\ mtimes = [p \in PhotoPaths(staged) |-> D_mtime]
    /\ organized = EmptyMap
    /\ library \in RerunLibraries
    /\ lib0 = library
    /\ yearTodo = {}
    /\ mergeStack = <<>>
    /\ lastOp = NoOp
    /\ importRaised = FALSE
    /\ orgDir = 0
    /\ orgTodo = {}
    /\ orgLog = {}
    /\ files_copied = 0
    /\ duplicates_found = 0
    /\ errors = <<>>
    /\ step = "all"
    /\ stagesRun = <<"organize">>
    /\ report_file = NoReport
    /\ runs = 1
    /\ libAfterFirst = EmptyMap
    /\ toolCalls = {}
    /\ GatherIdle
    /\ DedupeIdle

NextRerun ==
    \/ OrganizeBegin
    \/ OrganizeNextDir
    \/ \E n \in orgTodo : \E res \in RunReaderResults : OrganizeFile(n, res)
    \/ \E n \in orgTodo : \E res \in RunReaderResults : OrganizeFileFails(n, res, "date")
    \/ RunCall(6)
    \/ ImportBegin
    \/ \E y \in yearTodo : ImportYearMerge(y)
    \/ \E y \in yearTodo : ImportYearCopy(y)
    \/ \E y \in yearTodo : ImportYearCopyFails(y, {})
    \/ \E n \in TopTodo : MergeDescend(n)
    \/ \E n \in TopTodo : MergeCopyTree(n)
    \/ \E n \in TopTodo : MergeCopyFile(n)
    \/ \E n \in TopTodo : MergeCopyFileFails(n, FALSE)
    \/ MergeReturn
    \/ ImportScan
    \/ RerunStages

SpecRerun == InitRerun /\ [][NextRerun]_vars

(***************************************************************************)
(* Properties of the merge engine (SpecMerge).                             *)
(***************************************************************************)
ImportReturned == pc = "import_done" /\ ~dry_run /\ Exists(organized, <<>>)

FileCount(t) == Cardinality({p \in DOMAIN t : t[p] # DIR})

\* the regular files under the year directories of organized/
OrganizedFiles ==
    {q \in DOMAIN organized : organized[q] # DIR /\ Len(q) >= 2 /\ IsYearDir(q[1])}

Parent(q) == SubSeq(q, 1, Len(q) - 1)

\* a file name and the names it can get by suffixing
OwnOrSuffixed(name) ==
    {name} \cup {SuffixedName(Stem(name), k, Suffix(name)) :
                    k \in 1..(MaxOrganized + MaxLibrary + 1)}

\* C1: every node of the library as it was before the import is still there,
\* same path and same content, in every state of the import, the recursive
\* merges and the runs that end in an error included.
C1_LibraryPreserved ==
    \A p \in DOMAIN lib0 : p \in DOMAIN library /\ library[p] = lib0[p]

\* C1 witness: an import that copied a file next to an existing file of the
\* same name, inside a recursive merge, and then ended in an error
C1_Witness ==
    /\ pc = "import_done"
    /\ importRaised
    /\ lastOp.kind = "copy2"
    /\ lastOp.conflict
    /\ Len(lastOp.dest_dir) = 3
    /\ IsFile(lib0, lastOp.src)
    /\ library # lib0

\* C2: the number of files in the library never decreases, and after an import
\* in which nothing raised every regular file under an organized year directory
\* has a new copy in the same directory of the library, under its own name or a
\* suffixed one, the library having grown by exactly the number of those files.
C2_NoDataLossOnMerge ==
    /\ FileCount(library) >= FileCount(lib0)
    /\ (ImportReturned /\ ~importRaised) =>
          /\ \A q \in OrganizedFiles :
                \E name \in OwnOrSuffixed(q[Len(q)]) :
                    LET copy == Append(Parent(q), name)
                    IN  /\ IsFile(library, copy)
                        /\ library[copy] = organized[q]
                        /\ copy \notin DOMAIN lib0
          /\ FileCount(library) = FileCount(lib0) + Cardinality(OrganizedFiles)

\* C2 witness: an import without error of two files, one into a directory that
\* held a file of the same name
C2_Witness ==
    /\ ImportReturned
    /\ ~importRaised
    /\ Cardinality(OrganizedFiles) >= 2
    /\ \E q \in OrganizedFiles : IsFile(lib0, q) /\ library[q] = lib0[q]
    /\ FileCount(library) = FileCount(lib0) + Cardinality(OrganizedFiles)

\* C3: when _merge_directories copies a file whose name exists in the
\* destination directory, the copy is named <stem>_<k><extension> with k the
\* smallest integer >= 1 whose name is unused there, it holds the source
\* content, and the existing destination entry keeps its name and content.
C3_SmallestFreeSuffix ==
    [][ (lastOp' # lastOp /\ lastOp'.kind = "copy2" /\ lastOp'.conflict) =>
            LET d == lastOp'.dest_dir
                n == lastOp'.src[Len(lastOp'.src)]
                copy == Append(d, lastOp'.name)
            IN  /\ \E k \in 1..(MaxOrganized + MaxLibrary + 1) :
                      /\ lastOp'.name = SuffixedName(Stem(n), k, Suffix(n))
                      /\ \A j \in 1..(k - 1) :
                            Exists(library, Append(d, SuffixedName(Stem(n), j, Suffix(n))))
                /\ ~Exists(library, copy)
                /\ Exists(library', copy)
                /\ library'[copy] = organized[lastOp'.src]
                /\ Exists(library, Append(d, n))
                /\ library'[Append(d, n)] = library[Append(d, n)]
      ]_vars

\* C3 witness: a.jpg and a_1.jpg existed, the incoming a.jpg became a_2.jpg
C3_Witness ==
    /\ lastOp.kind = "copy2"
    /\ lastOp.conflict
    /\ lastOp.name = N_a_2_jpg
    /\ library[Append(lastOp.dest_dir, N_a_jpg)] = "old1"
    /\ library[Append(lastOp.dest_dir, N_a_1_jpg)] = "old2"
    /\ library[Append(lastOp.dest_dir, N_a_2_jpg)] = "new1"

\* the year directory y is absent from tree t, or present and empty
AbsentOrEmpty(t, y) == ~Exists(t, <<y>>) \/ (IsDir(t, <<y>>) /\ EntryNames(t, <<y>>) = {})

\* C4: after an import in which nothing raised, a year directory that was
\* absent from the library, or present and empty, holds exactly the relative
\* paths and contents of the organized year directory, no name suffixed.
C4_MergeRoundTrip ==
    (ImportReturned /\ ~importRaised) =>
        \A y \in EntryNames(organized, <<>>) :
            (IsYearDir(y) /\ AbsentOrEmpty(lib0, y)) =>
                /\ Under(library, <<y>>) = Under(organized, <<y>>)
                /\ \A q \in Under(organized, <<y>>) : library[q] = organized[q]

\* C4 witness: one year went through copytree of the year, another through the
\* recursive merge into an empty year directory
C4_Witness ==
    /\ ImportReturned
    /\ ~importRaised
    /\ \E y1, y2 \in EntryNames(organized, <<>>) :
          /\ IsYearDir(y1) /\ ~Exists(lib0, <<y1>>)
          /\ IsYearDir(y2) /\ IsDir(lib0, <<y2>>) /\ EntryNames(lib0, <<y2>>) = {}
          /\ \E q \in OrganizedFiles : q[1] = y1 /\ library[q] = organized[q]
          /\ \E q \in OrganizedFiles : q[1] = y2 /\ library[q] = organized[q]

(***************************************************************************)
(* Properties of the staging materializer (SpecGather).                    *)
(***************************************************************************)
AllSourcePairs == {<<i, f>> \in SourceIds \X AllSourceFiles : f \in sources[i].files}

\* the number of regular files in the subdirectories ds of the staging root
CountIn(st, ds) ==
    Cardinality({<<d, n>> \in (ds \cap DOMAIN st) \X UNION {DOMAIN st[d] : d \in DOMAIN st} :
                    n \in DOMAIN st[d]})

StagedCount == CountIn(staged, StageSubdirs)

\* C8 (as claimed): after a non-dry-run gather into an empty staging root, every
\* source file counted in files_copied is present in staging under
\* <class_subdir>/{source_name}_{original_name} with exactly its own content, and
\* files_copied equals the number of staged files.
C8_CopyFidelity ==
    (pc = "gather_done" /\ ~dry_run) =>
        /\ \A e \in copyLog :
              /\ e.dest.name \in DOMAIN staged[e.dest.dir]
              /\ staged[e.dest.dir][e.dest.name] = e.file.data
        /\ files_copied = StagedCount

\* file names tried against every pair of configured source names
AdversarialNames ==
    {f.name : f \in AllSourceFiles} \cup
    { <<"d","r","i","v","e","_","x",".","j","p","g">>,
      <<"x",".","j","p","g">>,
      <<"m","e","d","i","a","_","d","r","i","v","e","_","x",".","j","p","g">>,
      <<"p","r","i","m","a","r","y","_","x",".","j","p","g">>,
      <<"_","x",".","j","p","g">> }

\* C9: two files that come from different sources are never copied to the same
\* staging destination path; for the configured source names no pair of file
\* names gives the same {source_name}_{file}.
C9_NoCrossSourceCollision ==
    /\ \A e1, e2 \in copyLog : e1.src # e2.src => e1.dest # e2.dest
    /\ \A i, j \in SourceIds : \A n1, n2 \in AdversarialNames :
          i # j => DestFile(SourceNames[i], n1) # DestFile(SourceNames[j], n2)

\* C9 witness: the same file name was copied from two different sources
C9_Witness ==
    /\ pc = "gather_done"
    /\ ~dry_run
    /\ \E e1, e2 \in copyLog :
          /\ e1.src # e2.src
          /\ e1.file.name = e2.file.name
          /\ e1.dest.dir = e2.dest.dir
          /\ e1.dest.name \in DOMAIN staged[e1.dest.dir]
          /\ e2.dest.name \in DOMAIN staged[e2.dest.dir]

HasCopyError(i, f) == \E k \in DOMAIN errors : errors[k] = CopyError(i, f)

WasCounted(i, f) == \E e \in copyLog : e.src = i /\ e.file = f

\* C10: a failing copy appends an error and is not counted, every classified
\* file walked is either counted or has its error, so files_copied plus the
\* number of copy errors is the number of classified files walked; and the walk
\* ends only when every file of every discovered source was visited.
C10_PartialFailure ==
    /\ files_copied + Len(errors) = Cardinality({w \in Walked : Classified(w[2])})
    /\ files_copied = Cardinality(copyLog)
    /\ \A w \in Walked : Classified(w[2]) => (WasCounted(w[1], w[2]) # HasCopyError(w[1], w[2]))
    /\ pc = "gather_done" => Walked = {w \in AllSourcePairs : w[1] \in Discovered}

\* C10 witness: a copy failed and a file visited after it, in the same source
\* and in a later one, was still copied
C10_Witness ==
    /\ pc = "gather_done"
    /\ Len(errors) = 1
    /\ \E e1, e2 \in copyLog :
          /\ e1.src = errors[1].src
          /\ e1.file.dir # <<>>
          /\ errors[1].dir = <<>>
          /\ e2.src > errors[1].src

(***************************************************************************)
(* Properties of the duplicate resolver (SpecDedupe).                      *)
(***************************************************************************)
\* the file p of staging st0 is at its original path in st, content unchanged
InPlace(st0, st, p) ==
    /\ StagedExists(st, p)
    /\ st[p.dir][p.name] = st0[p.dir][p.name]

\* the file p of staging st0 is in the quarantine of st under its base name
Quarantined(st0, st, p) ==
    /\ p.name \in DOMAIN st["duplicates"]
    /\ st["duplicates"][p.name] = st0[p.dir][p.name]

FirstPassReturned == pc = "dedupe_done" /\ pass = 1

\* C5 (as claimed): after _handle_duplicates, in every group of two or more the
\* first member is in place and every other member is gone from its original
\* path and present under duplicates/ under its base name; smaller groups are
\* untouched.
C5_AllOthersQuarantined ==
    FirstPassReturned =>
        \A k \in DOMAIN detected :
            LET g == detected[k]
            IN  /\ InPlace(staged0, staged, g[1])
                /\ \A m \in 2..Len(g) :
                      /\ ~StagedExists(staged, g[m])
                      /\ Quarantined(staged0, staged, g[m])

\* C5 (amended): after _handle_duplicates, in every group of two or more the
\* first member is in place; every other member whose move did not raise is
\* gone from its original path and present under duplicates/ under its base
\* name, and a member whose move raised is still in place; smaller groups are
\* untouched.
C5_OthersQuarantinedUnlessMoveFails ==
    FirstPassReturned =>
        \A k \in DOMAIN detected :
            LET g == detected[k]
            IN  /\ InPlace(staged0, staged, g[1])
                /\ \A m \in 2..Len(g) :
                      IF g[m] \in moveFailed[1]
                      THEN InPlace(staged0, staged, g[m])
                      ELSE /\ ~StagedExists(staged, g[m])
                           /\ Quarantined(staged0, staged, g[m])

\* C5 witness: a group of three was resolved, one move succeeded and one raised
C5_Witness ==
    /\ FirstPassReturned
    /\ \E k \in DOMAIN detected :
          /\ Len(detected[k]) = 3
          /\ detected[k][2] \in moved[1]
          /\ detected[k][3] \in moveFailed[1]
          /\ Quarantined(staged0, staged, detected[k][2])

\* C6 (as claimed): every file that was in raw_photos, processed_photos or
\* duplicates before deduplication still exists with its content, at its
\* original path or in the duplicates directory.
C6_Lossless ==
    \A d \in PhotoSubdirs \cup {"duplicates"} :
        \A n \in DOMAIN staged0[d] :
            \/ InPlace(staged0, staged, StagedPath(d, n))
            \/ Quarantined(staged0, staged, StagedPath(d, n))

LaterPass == pass >= 2 /\ pc \in {"handle", "dedupe_done"}

\* C7: when _handle_duplicates runs again on the same output, the first member
\* of every group stays in place with its content, the files the first pass
\* quarantined stay as they were, a member already gone from its original path
\* is skipped, and if no move of the first pass raised nothing changes at all.
C7_SecondPassKeepsRetained ==
    LaterPass =>
        /\ \A k \in DOMAIN detected :
              LET g == detected[k]
              IN  /\ Len(g) >= 2 => InPlace(afterPass1, staged, g[1])
                  /\ Len(g) >= 2 => InPlace(staged0, staged, g[1])
                  /\ \A m \in 2..Len(g) :
                        ~StagedExists(afterPass1, g[m]) =>
                            \A r \in 2..MaxPasses : g[m] \notin moved[r] \cup moveFailed[r]
        /\ \A p \in moved[1] : Quarantined(staged0, staged, p)
        /\ moveFailed[1] = {} => staged = afterPass1

\* C7 witness: the second pass returned after a first pass that quarantined two
\* members of one group
C7_Witness ==
    /\ pc = "dedupe_done"
    /\ pass = 2
    /\ moveFailed[1] = {}
    /\ Cardinality(moved[1]) >= 2
    /\ moved[2] = {}
    /\ \E k \in DOMAIN detected :
          /\ Len(detected[k]) = 3
          /\ InPlace(staged0, staged, detected[k][1])

(***************************************************************************)
(* Properties of the full run (SpecRun).                                   *)
(***************************************************************************)
DetectorFailures == {"jdupes failed", "jdupes timed out", "jdupes not installed"}

\* the detector was started and was missing, timed out or exited non-zero
DetectorFailed == \E c \in toolCalls : c.tool = "jdupes" /\ c.outcome \in DetectorFailures

IsDetectorError(e) == e.kind \in DetectorFailures

IsCopyError(e) == e.kind = "copy"

\* C11: when the duplicate detector is missing, times out or exits non-zero,
\* run_jdupes_deduplication records exactly one error (the last one when it
\* returns, after the copy errors of gather), _handle_duplicates is not called
\* and staging is as it was, duplicates_found keeps its value, the exception
\* handler of the run is not entered by this stage, and the next stage called
\* is organize_by_date.
C11_DetectorFailureSkipsDedupe ==
    DetectorFailed =>
        /\ Len(SelectSeq(errors, IsDetectorError)) = 1
        /\ pass = 0 /\ moved[1] = {} /\ moveFailed[1] = {}
        /\ duplicates_found = 0
        /\ FatalError("dedupe") \notin Range(errors)
        /\ pc = "dedupe_done" =>
              /\ staged = staged0
              /\ IsDetectorError(errors[Len(errors)])
              /\ Len(SelectSeq(errors, IsCopyError)) = Len(errors) - 1
              /\ ENABLED RunCall(5)
        /\ Len(stagesRun) >= 5 => stagesRun[5] = "organize"
        /\ pc \notin {"dedupe_done", "raised"} => Len(stagesRun) >= 5

\* C11 witness: the detector failed with two byte-identical photos staged, both
\* were organized afterwards and the report was written
C11_Witness ==
    /\ DetectorFailed
    /\ report_file.written
    /\ Cardinality({e \in orgLog : e.outcome = "moved"}) = 2
    /\ Len(report_file.errors) = 1

(***************************************************************************)
(* Properties of the temporal organizer (SpecOrganize).                    *)
(***************************************************************************)
MovedEntries == {e \in orgLog : e.outcome = "moved"}

\* the reader exited with status 0 and printed the field with a valid time
UsableCapture(res) ==
    /\ res.kind = "exit"
    /\ res.rc = 0
    /\ Len(res.stdout) = 5
    /\ res.stdout = Printed(<<res.stdout[4]>>)
    /\ Parses(<<res.stdout[4]>>)

CaptureOf(res) == Date(res.stdout[4].year, res.stdout[4].month, res.stdout[4].day)

\* a year written with four digits
Pad4(n) ==
    IF n < 10 THEN <<"0", "0", "0">> \o DecStr(n)
    ELSE IF n < 100 THEN <<"0", "0">> \o DecStr(n)
    ELSE IF n < 1000 THEN <<"0">> \o DecStr(n)
    ELSE DecStr(n)

\* the file of entry e is in organized/ under the year name y, the two-digit
\* month and day of the date _get_photo_date returned, under its own name, and
\* no longer in the staging directory
PlacedUnder(e, y) ==
    LET dest == <<y, Pad2(e.date.month), Pad2(e.date.day), e.path.name>>
    IN  /\ IsFile(organized, dest)
        /\ organized[dest] = "x"
        /\ ~StagedExists(staged, e.path)

\* a usable capture time is the date _get_photo_date returns
CapturePreferred ==
    \A e \in orgLog : UsableCapture(e.res) => e.via = "capture" /\ e.date = CaptureOf(e.res)

C13_FallbackUnconditional ==
    /\ \A e \in orgLog :
          (~UsableCapture(e.res) /\ e.outcome \notin {"stat", "move"}) =>
              /\ e.via = "mtime"
              /\ e.date = MTimeOf(e.path)
              /\ e.outcome = "moved"
              /\ PlacedUnder(e, DecStr(MTimeOf(e.path).year))
    /\ pc # "raised" => errors = <<>>

(***************************************************************************)
(* Further properties of the full run (SpecRun).                           *)
(***************************************************************************)
\* the classified files the walk has visited, one per source and path
ClassifiedWalked == {w \in Walked : Classified(w[2])}

\* C14: in a dry run the staging root is never created or written, organized/
\* and the library stay as they were, no file is quarantined or organized, the
\* detector, the metadata reader and the library scan are never started, and
\* files_copied counts every classified file the walk has visited.
C14_DryRunMutatesNothing ==
    dry_run =>
        /\ staged = EmptyMap
        /\ organized = EmptyMap
        /\ library = LibraryOf(sources[1])
        /\ moved[1] = {} /\ orgLog = {} /\ lastOp = NoOp
        /\ toolCalls = {}
        /\ files_copied = Cardinality(ClassifiedWalked)
        /\ copyLog = {[src |-> w[1], file |-> w[2], dest |-> DestPath(w[1], w[2])] :
                         w \in ClassifiedWalked}

\* C14 witness: a dry run over two classified files went through every stage
\* and wrote its report
C14_Witness ==
    /\ dry_run
    /\ pc = "report_done"
    /\ stagesRun = Stages
    /\ files_copied = 2
    /\ report_file.files_copied = 2

\* a move of a duplicate into quarantine or of a photo into its date bucket raised
MoveFailureHappened ==
    \/ \E k \in DOMAIN moveFailed : moveFailed[k] # {}
    \/ \E e \in orgLog : e.outcome = "move"

\* C15 (as claimed): a run in which the copy or the move of at least one file
\* failed ends with a non-empty error list in its report.
C15_FileFailuresRecorded ==
    (pc = "report_done" /\ MoveFailureHappened) => report_file.errors # <<>>

IsFatalError(e) == e.kind = "fatal"

\* C16: when an exception escapes a stage of run_full_consolidation, the run
\* is over (no further stage is called, no report is written by a later
\* stage), the last entry of stats errors is that exception and it is the
\* only such entry; as long as nothing escaped there is no such entry. The
\* stages are called in their fixed order.
C16_FatalRecordedOnceAndRaised ==
    /\ stagesRun = SubSeq(Stages, 1, Len(stagesRun))
    /\ pc = "raised" =>
          /\ stagesRun # <<>>
          /\ errors # <<>>
          /\ errors[Len(errors)] = FatalError(stagesRun[Len(stagesRun)])
          /\ Len(SelectSeq(errors, IsFatalError)) = 1
          /\ ~report_file.written
          /\ \A k \in DOMAIN Stages : ~ENABLED RunCall(k)
    /\ pc # "raised" => SelectSeq(errors, IsFatalError) = <<>>

\* C16 witness: organize_by_date raised after a copy error and a detector
\* failure had been recorded; import and report were not called
C16_Witness ==
    /\ pc = "raised"
    /\ stagesRun = SubSeq(Stages, 1, 5)
    /\ Len(errors) = 3
    /\ errors[3] = FatalError("organize")

\* run_full_consolidation has returned or raised
RunOver == pc \in {"report_done", "raised"}

\* C17 (as claimed): when run_full_consolidation is over, by returning or by
\* re-raising an unexpected failure, the report has been written and holds the
\* full error list.
C17_ReportAlwaysEmitted ==
    RunOver => report_file.written /\ report_file.errors = errors

(***************************************************************************)
(* Properties of the command surface (SpecRun).                            *)
(***************************************************************************)
\* main has returned or the exception of the run has left it
MainOver == pc \in {"exit", "report_done", "raised"}

\* C18 (as claimed): main called with a single step runs that stage and no
\* other; with step = all it runs the pipeline from its first stage on.
C18_SingleStepRuns ==
    /\ (MainOver /\ step # "all") => stagesRun = <<step>>
    /\ (MainOver /\ step = "all") => (stagesRun # <<>> /\ stagesRun = SubSeq(Stages, 1, Len(stagesRun)))

(***************************************************************************)
(* Properties of a repeated organize and import (SpecRerun).               *)
(***************************************************************************)
FilePaths(t) == {q \in DOMAIN t : t[q] # DIR}

\* both runs of the two stages have returned and no file failed in either
BothRunsClean ==
    /\ pc = "import_done"
    /\ runs = 2
    /\ ~importRaised
    /\ \A e \in orgLog : e.outcome = "moved"

\* C19 (as claimed): after organize_by_date and import_to_darktable were run
\* a second time on the same staging root, the set of file paths in the
\* library is the one the first run left.
C19_RerunSamePlacement ==
    BothRunsClean => FilePaths(library) = FilePaths(libAfterFirst)

(***************************************************************************)
(* Further properties of the duplicate resolver (SpecDedupe).              *)
(***************************************************************************)
\* C20 (as claimed): when run_jdupes_deduplication has returned after a
\* successful detector run, duplicates_found is the number of files that were
\* relocated into the quarantine directory.
C20_CountsRelocatedFiles ==
    FirstPassReturned => duplicates_found = Cardinality(moved[1])

(***************************************************************************)
(* Further properties of the temporal organizer (SpecOrganize).            *)
(***************************************************************************)
FailedEntries == {e \in orgLog : e.outcome # "moved"}

\* the staged photos the loops of organize_by_date have not reached yet
NotYetVisited ==
    {p \in PhotoPaths(staged) :
        \E k \in DOMAIN photo_dirs :
            /\ p.dir = photo_dirs[k]
            /\ \/ k > orgDir
               \/ k = orgDir /\ p.name \in orgTodo}

\* C21: in organize_by_date an exception while handling one file (raised by
\* the date lookup, by stat or by the move) leaves that file in its staging
\* directory and records no error; the loop goes on: every photo still in
\* raw_photos or processed_photos is either one that failed or one the loop
\* has not reached yet, every other file is in its date bucket, and when the
\* stage has returned no photo is left unvisited.
C21_FileFailureDoesNotAbort ==
    (~dry_run /\ pc \in {"organize_dirs", "organize_done"}) =>
        /\ \A e \in FailedEntries : StagedExists(staged, e.path)
        /\ \A p \in PhotoPaths(staged) \ NotYetVisited : \E e \in FailedEntries : e.path = p
        /\ \A e \in MovedEntries : PlacedUnder(e, DecStr(e.date.year))
        /\ errors = <<>>
        /\ pc = "organize_done" => NotYetVisited = {}
        /\ (pc = "organize_dirs" /\ orgTodo = {}) => ENABLED OrganizeNextDir

\* C21 witness: the stage returned after the file of raw_photos failed in its
\* date lookup and the file of processed_photos, visited later, was moved
C21_Witness ==
    /\ pc = "organize_done"
    /\ \E e \in FailedEntries : e.path.dir = "raw_photos" /\ e.outcome = "date"
    /\ \E e \in MovedEntries : e.path.dir = "processed_photos"

(***************************************************************************)
(* Conservation of the staged photos and videos over a full run (SpecRun)  *)
(***************************************************************************)
\* the three staging directories a photo can be in
PhotoHomes == {"raw_photos", "processed_photos", "duplicates"}

\* run_jdupes_deduplication has been called in this run: staged0 is what gather left
DedupeCalled == ~dry_run /\ "dedupe" \in Range(stagesRun)

\* the places where the photo p of staged0 is found with its content
PlacesInStaging(p) ==
    {d \in PhotoHomes \cap DOMAIN staged :
        /\ p.name \in DOMAIN staged[d]
        /\ staged[d][p.name] = staged0[p.dir][p.name]
        /\ d \in PhotoSubdirs => d = p.dir}

PlacesInOrganized(p) ==
    {q \in FilePaths(organized) :
        /\ Len(q) = 4
        /\ q[4] = p.name
        /\ organized[q] = staged0[p.dir][p.name]}

\* C22: from an empty staging root, once gather has returned every photo it
\* staged is, with its content, in exactly one place among its own staging
\* directory, duplicates/ and a day directory of organized/, through
\* deduplication, organizing and the rest of the run; and these places hold
\* as many files as gather staged: nothing is copied, overwritten or deleted.
C22_StagedPhotosConserved ==
    DedupeCalled =>
        /\ \A p \in PhotoPaths(staged0) :
              Cardinality(PlacesInStaging(p)) + Cardinality(PlacesInOrganized(p)) = 1
        /\ CountIn(staged, PhotoHomes) + FileCount(organized) = CountIn(staged0, PhotoSubdirs)
        /\ CountIn(staged0, {"duplicates"}) = 0

\* C22 witness: organize has returned; of the photos gather staged one of
\* raw_photos is quarantined and one of processed_photos is in a day directory
C22_Witness ==
    /\ DedupeCalled
    /\ pc = "organize_done"
    /\ \E p \in PhotoPaths(staged0) : p.dir = "raw_photos" /\ PlacesInStaging(p) = {"duplicates"}
    /\ \E p \in PhotoPaths(staged0) : p.dir = "processed_photos" /\ PlacesInOrganized(p) # {}

IsVideoName(n) == Lower(Suffix(n)) \in video_extensions

\* the files gather classifies as videos, under the names it stages them
StagedVideoNames ==
    {DestFile(SourceNames[i], f.name) :
        <<i, f>> \in {x \in SourceIds \X UNION {sources[j].files : j \in SourceIds} :
                        x[2] \in sources[x[1]].files /\ DestSubdir(x[2].name) = "videos"}}

VideosIn(t) == {q \in FilePaths(t) : IsVideoName(q[Len(q)])}

\* C23: once gather has returned, the files of videos/ are left alone by the
\* rest of the run: the directory keeps its files and their contents, each
\* under {source_name}_{name}; no video is reported by the detector, moved to
\* duplicates/, visited by the organizer or placed under organized/, and the
\* library holds no video it did not hold before the run.
C23_VideosUntouched ==
    DedupeCalled =>
        /\ staged["videos"] = staged0["videos"]
        /\ DOMAIN staged["videos"] \subseteq StagedVideoNames
        /\ \A g \in Range(detected) : \A p \in Range(g) : p.dir # "videos"
        /\ \A k \in 1..MaxPasses : \A p \in moved[k] \cup moveFailed[k] : p.dir # "videos"
        /\ \A n \in DOMAIN staged["duplicates"] : ~IsVideoName(n)
        /\ \A e \in orgLog : e.path.dir # "videos"
        /\ VideosIn(organized) = {}
        /\ VideosIn(library) = VideosIn(LibraryOf(sources[1]))
        /\ \A q \in VideosIn(library) : library[q] = LibraryOf(sources[1])[q]

\* C23 witness: a full run has ended with a video in videos/, after a photo
\* staged next to it was organized and copied into the library
C23_Witness ==
    /\ DedupeCalled
    /\ pc = "report_done"
    /\ staged["videos"] # EmptyMap
    /\ FilePaths(organized) # {}
    /\ library # LibraryOf(sources[1])

====
